---- MODULE Spec2Model ----
(***************************************************************************)
(* A model of render_script.py: the turntable pipeline that main() drives  *)
(* over one Blender scene.                                                 *)
(*                                                                         *)
(* Conventions                                                             *)
(*  - A Python string is a tuple of characters, so that "kw in name" is a  *)
(*    real substring test.  A CJK character is one element, written by its *)
(*    pinyin: <<"bei","jing">> is the two-character keyword for            *)
(*    "background".                                                        *)
(*  - A Vector is a 3-tuple of integers.  Mesh corners are in whole units; *)
(*    every derived position (a center, a location) is kept in HALF units, *)
(*    so that (min + max) / 2 is exact.                                    *)
(*  - Rotation counts are in half turns, so an angle 2*pi*R is the integer *)
(*    number of pi it holds.  Action end frames are in half frames, so     *)
(*    that int() truncates something.                                      *)
(***************************************************************************)
EXTENDS Integers, Sequences, FiniteSets, TLC

\* --------------------------------------------------------------- bounds
MaxObjs == 2
MaxFrames == 1
MaxCalls == 2

\* --------------------------------------------------------------- strings
Contains(sub, s) ==
    \E i \in 0..(Len(s) - Len(sub)) : SubSeq(s, i + 1, i + Len(sub)) = sub

KW_BACKGROUND == <<"bei", "jing">>
KW_FRONT == <<"zheng", "mian">>
KW_BACK == <<"bei", "mian">>
KW_REVERSE == <<"fan", "mian">>
TOKEN_VEN == <<"V", "E", "N">>
TOKEN_CARNAGE == <<"C", "A", "R", "N", "A", "G", "E">>

CardParentName == <<"C", "a", "r", "d", "P", "a", "r", "e", "n", "t">>
ModelParentName == <<"M", "o", "d", "e", "l", "P", "a", "r", "e", "n", "t">>
FocusPointName == <<"F", "o", "c", "u", "s", "P", "o", "i", "n", "t">>
EmptyName == <<"E", "m", "p", "t", "y">>
CameraName == <<"C", "a", "m", "e", "r", "a">>
SunName == <<"S", "u", "n">>
AreaName == <<"A", "r", "e", "a">>

Digit(k) == CASE k = 0 -> "0" [] k = 1 -> "1" [] k = 2 -> "2" [] k = 3 -> "3"
              [] k = 4 -> "4" [] k = 5 -> "5" [] k = 6 -> "6" [] k = 7 -> "7"
              [] k = 8 -> "8" [] OTHER -> "9"

\* Blender's numeric suffix, ".001", ".002", ...
Suffix(k) == <<".", "0", "0", Digit(k)>>

\* --------------------------------------------------------------- vectors
Vector(x, y, z) == <<x, y, z>>
VAdd(a, b) == <<a[1] + b[1], a[2] + b[2], a[3] + b[3]>>
VSub(a, b) == <<a[1] - b[1], a[2] - b[2], a[3] - b[3]>>
Min2(a, b) == IF a < b THEN a ELSE b
Max2(a, b) == IF a > b THEN a ELSE b
VMin(a, b) == <<Min2(a[1], b[1]), Min2(a[2], b[2]), Min2(a[3], b[3])>>
VMax(a, b) == <<Max2(a[1], b[1]), Max2(a[2], b[2]), Max2(a[3], b[3])>>
MaxComp(v) == Max2(v[1], Max2(v[2], v[3]))

\* float('inf'): larger than any coordinate of the model
INF == 1000000

\* The 8 corners of the box lo..hi, in Blender's bound_box order.
BoxCorners(lo, hi) ==
    << <<lo[1], lo[2], lo[3]>>, <<lo[1], lo[2], hi[3]>>,
       <<lo[1], hi[2], hi[3]>>, <<lo[1], hi[2], lo[3]>>,
       <<hi[1], lo[2], lo[3]>>, <<hi[1], lo[2], hi[3]>>,
       <<hi[1], hi[2], hi[3]>>, <<hi[1], hi[2], lo[3]>> >>

\* --------------------------------------------------------------- datablocks
\* A shading-graph node.  socket and link are read on principled nodes only:
\* socket is the name of the base-color input ("" when the node has none) and
\* link is the index of the node whose output feeds it (0: not linked).
Node(type, image, socket, link) ==
    [type |-> type, image |-> image, socket |-> socket, link |-> link]

Material(name, use_nodes, nodes) ==
    [name |-> name, use_nodes |-> use_nodes, nodes |-> nodes]

\* A scene object.  anim is "none" (no animation_data), "data" (animation_data
\* without an action) or "action"; action_end is action.frame_range[1] in half
\* frames; track is the set of keyframes of the rotation_euler[2] f-curve.
\* matrix_world and matrix_parent_inverse are translations; parent and target
\* are indices into bpy.data.objects (0: None).
Object(name, type, materials, anim, action_end, track, bound_box, matrix_world, location, parent, target, data) ==
    [name |-> name, type |-> type, materials |-> materials, anim |-> anim,
     action_end |-> action_end, track |-> track, bound_box |-> bound_box,
     matrix_world |-> matrix_world, location |-> location, parent |-> parent,
     matrix_parent_inverse |-> <<0, 0, 0>>, target |-> target, data |-> data]

Keyframe(frame, value, interpolation) ==
    [frame |-> frame, value |-> value, interpolation |-> interpolation]

NoneVec == <<0, 0, 0>>

Empty(name, location, anim, track) ==
    Object(name, "EMPTY", <<>>, anim,
           IF anim = "action" THEN 2 * 5 ELSE 0, track, <<>>, NoneVec,
           location, 0, 0, <<>>)

\* --------------------------------------------------------------- file contents
\* The materials of an asset file: a front and a back material, a background
\* material and one whose name holds no keyword.  Image 1 is the file's own.
FileMats ==
    << Material(<<"zheng", "mian", "_", "m", "a", "t">>, TRUE,
                << Node("BSDF_PRINCIPLED", 0, "Base Color", 2),
                   Node("TEX_IMAGE", 1, "", 0) >>),
       Material(<<"k", "a", "_", "bei", "mian">>, TRUE,
                << Node("BSDF_PRINCIPLED", 0, "Base Color", 0) >>),
       Material(<<"bei", "jing">>, TRUE,
                << Node("MIX", 0, "", 0),
                   Node("BSDF_PRINCIPLED", 0, "BaseColor", 1) >>),
       Material(<<"M", "e", "t", "a", "l">>, TRUE,
                << Node("BSDF_PRINCIPLED", 0, "Base Color", 2),
                   Node("TEX_IMAGE", 1, "", 0) >>) >>

\* The kinds of mesh a file may hold: name, material slots (0 is an empty
\* slot), animation and local bounding box.
MeshKinds ==
    { [base |-> <<"V", "E", "R", "S", "O">>, materials |-> <<1, 2>>,
       anim |-> "data", action_end |-> 0,
       lo |-> <<0, 0, 0>>, hi |-> <<2, 1, 3>>],
      [base |-> <<"C", "a", "r", "d">>, materials |-> <<1, 4>>,
       anim |-> "action", action_end |-> 2 * 4,
       lo |-> <<-1, 0, -2>>, hi |-> <<1, 1, 2>>],
      [base |-> <<"V", "E", "N", "_", "b", "g">>, materials |-> <<0, 3>>,
       anim |-> "none", action_end |-> 0,
       lo |-> <<-5, 0, -5>>, hi |-> <<5, 0, 6>>],
      [base |-> <<"x", "C", "A", "R", "N", "A", "G", "E">>, materials |-> <<>>,
       anim |-> "action", action_end |-> 2 * 5 + 1,
       lo |-> <<-4, 2, -3>>, hi |-> <<4, 3, 3>>],
      [base |-> <<"P", "l", "a", "n", "e">>, materials |-> <<3>>,
       anim |-> "action", action_end |-> 2 * 2 + 1,
       lo |-> <<-6, 4, -6>>, hi |-> <<7, 4, 6>>] }

\* Where a file may put its meshes: slot i of layout l stands at
\* Positions[((i + l) % Len(Positions)) + 1].
Positions == << <<0, 0, 0>>, <<4, -2, 1>>, <<-3, 6, 0>> >>
Layouts == {0, 1}
PositionOf(i, l) == Positions[((i + l) % Len(Positions)) + 1]

\* Mesh i of a file: its name carries the slot number, since Blender keeps
\* object names unique.
MeshObject(k, i, l) ==
    Object(k.base \o <<Digit(i)>>, "MESH", k.materials, k.anim, k.action_end,
           {}, BoxCorners(k.lo, k.hi), PositionOf(i, l), NoneVec, 0, 0, <<>>)

\* What a project (.blend) file may hold besides meshes: helper empties left
\* by an earlier session, an active camera, a declared frame range.
AuthoredTrack == {Keyframe(1, 0, "BEZIER"), Keyframe(5, 1, "BEZIER")}
Projects ==
    { [extras |-> <<>>, camera |-> TRUE, frame_end |-> 3],
      [extras |-> <<Empty(CardParentName, <<2, 2, 2>>, "action", AuthoredTrack)>>,
       camera |-> TRUE, frame_end |-> 1],
      [extras |-> <<Empty(ModelParentName, <<0, 0, 0>>, "action", AuthoredTrack)>>,
       camera |-> TRUE, frame_end |-> 3],
      [extras |-> <<Empty(FocusPointName, <<8, 8, 8>>, "none", {})>>,
       camera |-> FALSE, frame_end |-> 0] }

\* An imported asset carries meshes only.
NoProject == [extras |-> <<>>, camera |-> FALSE, frame_end |-> 0]

MeshLists == UNION {[1..n -> MeshKinds] : n \in 0..MaxObjs}

Extensions == {".blend", ".obj", ".fbx", ".gltf", ".glb", ".txt"}
ImportExtensions == {".obj", ".fbx", ".gltf", ".glb"}

\* The contents the file at args.input may have, by its extension.  A file
\* of an unsupported format has no content the program could read.
Files(ext) ==
    IF ext = ".blend"
    THEN [meshes : MeshLists, layout : Layouts, project : Projects]
    ELSE IF ext \in ImportExtensions
    THEN [meshes : MeshLists, layout : Layouts, project : {NoProject}]
    ELSE {[meshes |-> <<>>, layout |-> 0, project |-> NoProject]}

CameraObject(name, location, target) ==
    Object(name, "CAMERA", <<>>, "none", 0, {}, <<>>, NoneVec, location, 0,
           target, <<"CAMERA", 85>>)

LightObject(name, kind, location, energy, size, target) ==
    Object(name, "LIGHT", <<>>, "none", 0, {}, <<>>, NoneVec, location, 0,
           target, <<kind, energy, size>>)

\* bpy.data.objects of a file, in order: meshes, helper empties, camera.
FileObjects(f) ==
    [i \in 1..Len(f.meshes) |-> MeshObject(f.meshes[i], i, f.layout)]
        \o f.project.extras
        \o (IF f.project.camera
            THEN <<CameraObject(CameraName, <<0, -20, 0>>, 0)>> ELSE <<>>)

FileCamera(f) ==
    IF f.project.camera THEN Len(f.meshes) + Len(f.project.extras) + 1 ELSE 0

\* Blender's factory frame range end.
FactoryFrameEnd == 250

\* The session main() starts in: Blender's startup scene.
StartupMats ==
    << Material(<<"M", "a", "t", "e", "r", "i", "a", "l">>, TRUE,
                << Node("BSDF_PRINCIPLED", 0, "Base Color", 0) >>) >>
StartupObjects ==
    << Object(<<"C", "u", "b", "e">>, "MESH", <<1>>, "none", 0, {},
              BoxCorners(<<-1, -1, -1>>, <<1, 1, 1>>), NoneVec, NoneVec, 0, 0,
              <<>>),
       LightObject(<<"L", "i", "g", "h", "t">>, "POINT", <<8, 2, 12>>, 1000, 0, 0),
       CameraObject(CameraName, <<14, -14, 10>>, 0) >>

\* --------------------------------------------------------------- state
VARIABLES
    pc,                 \* where main() stands
    args,               \* the parsed command line
    file,               \* the content of the file at args.input
    exit_code,          \* -1 while running, then the process's exit status
    log,                \* the pipeline stages run so far, in order
    objs,               \* bpy.data.objects
    mats,               \* bpy.data.materials
    images,             \* len(bpy.data.images)
    camera,             \* scene.camera (0: None)
    world,              \* scene.world
    frame_end,          \* scene.frame_end
    render,             \* scene.render and scene.frame_start
    keep_animation,     \* main's locals
    final_frames,
    final_rotations,
    frames_to_render,
    card_objects,       \* analyze_and_setup_scene's locals
    background_objects,
    card_center,
    card_size,
    card_parent,
    scene_center,
    scene_size,
    calls               \* replace_texture calls made so far

blenderVars == <<objs, mats, images, camera, world, frame_end, render>>
mainVars == <<keep_animation, final_frames, final_rotations, frames_to_render>>
analyzeVars ==
    <<card_objects, background_objects, card_center, card_size, card_parent,
      scene_center, scene_size>>
vars == <<pc, args, file, exit_code, log, blenderVars, mainVars, analyzeVars, calls>>

\* --------------------------------------------------------------- lookups
Indices(os) == [i \in 1..Len(os) |-> i]

IsMesh(os, i) == os[i].type = "MESH"

\* get_all_mesh_objects: the meshes of the scene, in scene order
get_all_mesh_objects(os) == SelectSeq(Indices(os), LAMBDA i : IsMesh(os, i))

\* bpy.data.objects.get(name): the object of that name, 0 for None
ObjectsGet(os, name) ==
    IF \E i \in 1..Len(os) : os[i].name = name
    THEN CHOOSE i \in 1..Len(os) : os[i].name = name
    ELSE 0

NameTaken(os, name) == \E i \in 1..Len(os) : os[i].name = name

\* The name Blender gives a datablock that asks for a name in use: the first
\* free numeric suffix.
UniqueName(os, name) ==
    IF ~NameTaken(os, name) THEN name
    ELSE name \o Suffix(CHOOSE k \in 1..9 :
                            /\ ~NameTaken(os, name \o Suffix(k))
                            /\ \A j \in 1..(k - 1) : NameTaken(os, name \o Suffix(j)))

\* obj.name = name.  When another object holds the name, Blender renames one
\* of the two with a numeric suffix; which one depends on the Blender version,
\* so both outcomes are possible.
Rename(os, i, name) ==
    LET j == ObjectsGet(os, name) IN
    IF j = 0 \/ j = i
    THEN {[os EXCEPT ![i].name = name]}
    ELSE {[os EXCEPT ![i].name = UniqueName(os, name)],
          [os EXCEPT ![i].name = name, ![j].name = UniqueName(os, name)]}

HasNameToken(name) == Contains(TOKEN_VEN, name) \/ Contains(TOKEN_CARNAGE, name)

\* --------------------------------------------------------------- animation detection
HasAction(o) == o.anim # "none" /\ o.anim = "action"

\* check_if_animation_exists: some mesh without a background name token
\* carries an action
check_if_animation_exists(os) ==
    \E k \in 1..Len(get_all_mesh_objects(os)) :
        LET o == os[get_all_mesh_objects(os)[k]] IN
        /\ ~HasNameToken(o.name)
        /\ HasAction(o)

\* the loop of get_animation_length: max_frame over the meshes, in half frames
RECURSIVE MaxFrame(_, _, _)
MaxFrame(os, idxs, max_frame) ==
    IF idxs = <<>> THEN max_frame
    ELSE LET o == os[Head(idxs)] IN
         MaxFrame(os, Tail(idxs),
                  IF HasAction(o) THEN Max2(max_frame, o.action_end) ELSE max_frame)

\* int(x) of a non-negative x given in half frames
ToInt(half) == half \div 2

\* a variant of get_animation_length that takes the longer of the two always
get_animation_length_Longest(os, scene_end) ==
    LET max_frame == MaxFrame(os, get_all_mesh_objects(os), 2 * scene_end) IN
    IF max_frame > 2 * scene_end
    THEN ToInt(max_frame)
    ELSE scene_end

get_animation_length(os, scene_end) ==
    LET max_frame == MaxFrame(os, get_all_mesh_objects(os), 2 * scene_end) IN
    IF max_frame > 2 * scene_end /\ scene_end < 2
    THEN ToInt(max_frame)
    ELSE scene_end

\* --------------------------------------------------------------- classification
\* a variant of the is_bg test that forgets the second name token
IsBackground_VenOnly(os, ms, i) ==
    \/ /\ os[i].materials # <<>>
       /\ \E k \in 1..Len(os[i].materials) :
              /\ os[i].materials[k] # 0
              /\ Contains(KW_BACKGROUND, ms[os[i].materials[k]].name)
    \/ Contains(TOKEN_VEN, os[i].name)

\* the is_bg test of analyze_and_setup_scene
IsBackground(os, ms, i) ==
    \/ /\ os[i].materials # <<>>
       /\ \E k \in 1..Len(os[i].materials) :
              /\ os[i].materials[k] # 0
              /\ Contains(KW_BACKGROUND, ms[os[i].materials[k]].name)
    \/ HasNameToken(os[i].name)

BackgroundObjects(os, ms) ==
    SelectSeq(get_all_mesh_objects(os), LAMBDA i : IsBackground(os, ms, i))

\* card_objects, with the fallback to every mesh
CardObjects(os, ms) ==
    LET cards == SelectSeq(get_all_mesh_objects(os),
                           LAMBDA i : ~IsBackground(os, ms, i)) IN
    IF cards = <<>> THEN get_all_mesh_objects(os) ELSE cards

\* a variant of the clearing loop that leaves the actions in place and drops
\* only animation data without one
ClearAnimation_DataOnly(os, cards) ==
    [i \in 1..Len(os) |->
        IF (\E k \in 1..Len(cards) : cards[k] = i) /\ os[i].anim = "data"
        THEN [os[i] EXCEPT !.anim = "none"]
        ELSE os[i]]

\* obj.animation_data_clear() on every card object that has animation_data
ClearAnimation(os, cards) ==
    [i \in 1..Len(os) |->
        IF (\E k \in 1..Len(cards) : cards[k] = i) /\ os[i].anim # "none"
        THEN [os[i] EXCEPT !.anim = "none", !.action_end = 0, !.track = {}]
        ELSE os[i]]

\* --------------------------------------------------------------- bounds
\* obj.matrix_world @ Vector(corner)
WorldCorner(o, corner) == VAdd(o.matrix_world, corner)

\* The loop holds min_co, max_co and has_card_bounds as values: the accumulator
\* is read at every corner, not built up to be read after the last one.
RECURSIVE FoldCorners(_, _, _)
FoldCorners(o, corners, acc) ==
    IF acc.has \in BOOLEAN /\ corners = <<>> THEN acc
    ELSE LET world_corner == WorldCorner(o, Head(corners)) IN
         FoldCorners(o, Tail(corners),
                     [has |-> TRUE,
                      min |-> VMin(acc.min, world_corner),
                      max |-> VMax(acc.max, world_corner)])

\* the min/max fold over every corner of every object of idxs
RECURSIVE FoldBounds(_, _, _)
FoldBounds(os, idxs, acc) ==
    IF idxs = <<>> THEN acc
    ELSE FoldBounds(os, Tail(idxs),
                    FoldCorners(os[Head(idxs)], os[Head(idxs)].bound_box, acc))

Bounds(os, idxs) ==
    FoldBounds(os, idxs, [has |-> FALSE, min |-> <<INF, INF, INF>>,
                          max |-> <<-INF, -INF, -INF>>])

\* (min_co + max_co) / 2, in half units
Center(b) == VAdd(b.min, b.max)

\* max(max_co - min_co), in whole units
Size(b) == MaxComp(VSub(b.max, b.min))

\* --------------------------------------------------------------- textures
\* An image path of the command line: "None" when the option is absent.
ImagePaths == {"ok.png", "missing.png", "broken.png"}
PathExists(path) == path # "missing.png"
Loadable(path) == path # "broken.png"

TargetParts == {"front", "back", "background", "side"}

\* target_materials of replace_texture
TargetMaterials(target_part) ==
    CASE target_part = "front" -> <<KW_FRONT>>
      [] target_part = "back" -> <<KW_BACK, KW_REVERSE>>
      [] target_part = "background" -> <<KW_BACKGROUND>>
      [] OTHER -> <<KW_FRONT, KW_REVERSE, KW_BACK>>

AllowBackgroundObjects(target_part) == target_part = "background"

\* is_target: the material's name contains a keyword of the target
IsTarget(name, target_part) ==
    \E k \in 1..Len(TargetMaterials(target_part)) :
        Contains(TargetMaterials(target_part)[k], name)

\* the objects replace_texture looks into
ProcessedObject(os, i, target_part) ==
    /\ os[i].materials # <<>>
    /\ ~(HasNameToken(os[i].name) /\ ~AllowBackgroundObjects(target_part))

\* a variant of the slot filter without the name test
TargetSlots_AnyName(o, ms, target_part) ==
    SelectSeq(o.materials, LAMBDA m : m # 0 /\ ms[m].use_nodes)

\* the material slots of one object that reach the rewiring code
TargetSlots(o, ms, target_part) ==
    SelectSeq(o.materials,
              LAMBDA m : m # 0 /\ ms[m].use_nodes /\ IsTarget(ms[m].name, target_part))

\* every material the two loops reach, in the order they reach it
RECURSIVE Visits(_, _, _, _)
Visits(os, ms, idxs, target_part) ==
    IF idxs = <<>> THEN <<>>
    ELSE (IF ProcessedObject(os, Head(idxs), target_part)
          THEN TargetSlots(os[Head(idxs)], ms, target_part) ELSE <<>>)
         \o Visits(os, ms, Tail(idxs), target_part)

FirstPrincipled(nodes) ==
    IF \E n \in 1..Len(nodes) : nodes[n].type = "BSDF_PRINCIPLED"
    THEN CHOOSE n \in 1..Len(nodes) :
            /\ nodes[n].type = "BSDF_PRINCIPLED"
            /\ \A k \in 1..(n - 1) : nodes[k].type # "BSDF_PRINCIPLED"
    ELSE 0

\* the body of the material loop, from the search for the principled node on
RewireMaterial(mat, new_image) ==
    LET nodes == mat.nodes
        bsdf == FirstPrincipled(nodes)
    IN  IF bsdf = 0 THEN mat
        ELSE
        LET base_color_socket == nodes[bsdf].socket # ""
            linked == base_color_socket /\ nodes[bsdf].link # 0
            found == IF linked /\ nodes[nodes[bsdf].link].type = "TEX_IMAGE"
                     THEN nodes[bsdf].link ELSE 0
            created == Append(nodes, Node("TEX_IMAGE", 0, "", 0))
            tex_node == IF found # 0 THEN found ELSE Len(nodes) + 1
            wired == IF found # 0 THEN nodes
                     ELSE IF base_color_socket
                     THEN [created EXCEPT ![bsdf].link = tex_node]
                     ELSE created
        IN  [mat EXCEPT !.nodes = [wired EXCEPT ![tex_node].image = new_image]]

RECURSIVE RewireAll(_, _, _)
RewireAll(ms, visits, new_image) ==
    IF visits = <<>> THEN ms
    ELSE RewireAll([ms EXCEPT ![Head(visits)] = RewireMaterial(ms[Head(visits)], new_image)],
                   Tail(visits), new_image)

\* replace_texture(image_path, target_part): the materials and the number of
\* images after the call
replace_texture(os, ms, imgs, image_path, target_part) ==
    IF image_path = "None" \/ ~PathExists(image_path)
    THEN [mats |-> ms, images |-> imgs]
    ELSE IF ~Loadable(image_path)
    THEN [mats |-> ms, images |-> imgs]
    ELSE [mats |-> RewireAll(ms, Visits(os, ms, get_all_mesh_objects(os), target_part),
                             imgs + 1),
          images |-> imgs + 1]

\* --------------------------------------------------------------- turntable
\* keyframe_insert on the rotation_euler[2] channel: the sample at that frame
\* is replaced, every other sample stays
KeyframeInsert(track, frame, value) ==
    {k \in track : k.frame # frame} \cup {Keyframe(frame, value, "BEZIER")}

Linear(track) == {Keyframe(k.frame, k.value, "LINEAR") : k \in track}

LastFrame(track) == CHOOSE f \in {k.frame : k \in track} :
                        \A k \in track : k.frame <= f

\* the pivot setup_turntable_animation finds: CardParent, else ModelParent
TurntableParent(os) ==
    IF ObjectsGet(os, CardParentName) # 0 THEN ObjectsGet(os, CardParentName)
    ELSE ObjectsGet(os, ModelParentName)

setup_turntable_animation(os, frames, rotations) ==
    LET parent_empty == TurntableParent(os) IN
    IF parent_empty = 0 THEN os
    ELSE LET track == Linear(KeyframeInsert(
                          KeyframeInsert(os[parent_empty].track, 1, 0),
                          frames + 1, rotations))
         IN  [os EXCEPT ![parent_empty].anim = "action",
                        ![parent_empty].track = track,
                        ![parent_empty].action_end = 2 * LastFrame(track)]

\* --------------------------------------------------------------- camera, lights
NoWorld == [exists |-> FALSE, use_nodes |-> FALSE, color |-> "none", strength |-> 0]
AuthoredWorld == [exists |-> TRUE, use_nodes |-> TRUE, color |-> "authored", strength |-> 1]

\* setup_lighting: the three lights, in half units
setup_lighting(os, center, size) ==
    LET key == LightObject(UniqueName(os, SunName), "SUN",
                           VAdd(center, <<2 * size, -2 * size, 2 * size>>), 5, 0, 0)
        os1 == Append(os, key)
        fill == LightObject(UniqueName(os1, AreaName), "AREA",
                            VAdd(center, <<-2 * size, -2 * size, size>>), 300,
                            size * 2, ObjectsGet(os1, CardParentName))
        os2 == Append(os1, fill)
        back == LightObject(UniqueName(os2, AreaName), "AREA",
                            VAdd(center, <<0, 2 * size, 2 * size>>), 500,
                            size, ObjectsGet(os2, CardParentName))
    IN  Append(os2, back)

\* setup_camera: the camera, tracking FocusPoint
setup_camera(os, target_center, target_size) ==
    Append(os, CameraObject(UniqueName(os, CameraName),
                            VAdd(target_center, <<0, -4 * target_size, 0>>),
                            ObjectsGet(os, FocusPointName)))

\* --------------------------------------------------------------- render settings
StartupRender ==
    [filepath |-> "/tmp/", frame_start |-> 1, engine |-> "BLENDER_EEVEE",
     samples |-> 64, use_denoising |-> FALSE, resolution |-> <<1920, 1080, 100>>,
     fps |-> 24, view_transform |-> "Filmic", file_format |-> "PNG",
     format |-> "MKV", codec |-> "H264", quality |-> <<"MEDIUM", "GOOD">>]

\* the render settings a project file carries
ProjectRender ==
    [StartupRender EXCEPT !.engine = "CYCLES", !.samples = 500,
                          !.resolution = <<900, 1200, 100>>,
                          !.view_transform = "Khronos PBR Neutral"]

ViewTransforms == {"Khronos PBR Neutral", "Standard"}

\* setup_render_settings; view_transform is the one the Blender build accepts
setup_render_settings(r, output_path, is_blend_file, view_transform) ==
    IF is_blend_file
    THEN [r EXCEPT !.filepath = output_path, !.frame_start = 1,
                   !.file_format = "FFMPEG", !.format = "MPEG4",
                   !.codec = "H264", !.quality = <<"HIGH", "GOOD">>]
    ELSE [r EXCEPT !.filepath = output_path, !.frame_start = 1,
                   !.engine = "CYCLES", !.samples = 128, !.use_denoising = TRUE,
                   !.resolution = <<900, 1200, 100>>, !.fps = 24,
                   !.view_transform = view_transform,
                   !.file_format = "FFMPEG", !.format = "MPEG4",
                   !.codec = "H264", !.quality = <<"HIGH", "GOOD">>]

\* --------------------------------------------------------------- command line
\* --rotations, in half turns: -1.0 (unspecified), 0 and 1.5
RotationArgs == {-2, 0, 3}

\* the texture options of one command line
TextureArgs ==
    { [texture |-> "None", texture_target |-> "front", texture_front |-> "None",
       texture_back |-> "None", texture_background |-> "None"],
      [texture |-> "ok.png", texture_target |-> "side",
       texture_front |-> "missing.png", texture_back |-> "broken.png",
       texture_background |-> "ok.png"] }

\* --frames: 0 (unspecified) and an explicit count
FrameArgs == {0, MaxFrames}

Args ==
    [ext : Extensions, rotations : RotationArgs, frames : FrameArgs,
     test : BOOLEAN, tex : TextureArgs]

default_frames == 120
default_rotations == 2 * 1

is_blend_file == args.ext = ".blend"

\* --------------------------------------------------------------- Init
NoLocals ==
    /\ keep_animation = FALSE
    /\ final_frames = 0
    /\ final_rotations = 0
    /\ frames_to_render = 0
    /\ card_objects = <<>>
    /\ background_objects = <<>>
    /\ card_center = NoneVec
    /\ card_size = 0
    /\ card_parent = 0
    /\ scene_center = NoneVec
    /\ scene_size = 0

Init ==
    /\ args \in Args
    /\ file \in Files(args.ext)
    /\ pc = "start"
    /\ exit_code = -1
    /\ log = <<>>
    /\ objs = StartupObjects
    /\ mats = StartupMats
    /\ images = 0
    /\ camera = 3
    /\ world = AuthoredWorld
    /\ frame_end = FactoryFrameEnd
    /\ render = StartupRender
    /\ NoLocals
    /\ calls = 0

\* --------------------------------------------------------------- main: loading
\* bpy.ops.wm.open_mainfile: the session becomes the project file's content
OpenMainfile ==
    /\ pc = "start"
    /\ is_blend_file
    /\ objs' = FileObjects(file)
    /\ mats' = FileMats
    /\ images' = 1
    /\ camera' = FileCamera(file)
    /\ world' = AuthoredWorld
    /\ frame_end' = file.project.frame_end
    /\ render' = ProjectRender
    /\ pc' = "textures"
    /\ UNCHANGED <<args, file, exit_code, log, mainVars, analyzeVars, calls>>

\* reset_scene: read_factory_settings(use_empty=True)
reset_scene ==
    /\ pc = "start"
    /\ ~is_blend_file
    /\ objs' = <<>>
    /\ mats' = <<>>
    /\ images' = 0
    /\ camera' = 0
    /\ world' = NoWorld
    /\ frame_end' = FactoryFrameEnd
    /\ render' = StartupRender
    /\ pc' = "import"
    /\ UNCHANGED <<args, file, exit_code, log, mainVars, analyzeVars, calls>>

\* the importer import_model picks for an extension; "exit" is sys.exit(1)
Importer(ext) ==
    IF ext = ".obj" THEN "obj"
    ELSE IF ext = ".fbx" THEN "fbx"
    ELSE IF ext \in {".gltf", ".glb"} THEN "gltf"
    ELSE IF ext = ".blend" THEN "pass"
    ELSE "exit"

\* a variant of import_model that reads the file before it looks at the
\* extension
import_model_ReadFirst ==
    /\ pc = "import"
    /\ objs' = objs \o FileObjects(file)
    /\ mats' = mats \o FileMats
    /\ images' = images + 1
    /\ IF Importer(args.ext) = "exit"
       THEN exit_code' = 1 /\ pc' = "exited"
       ELSE pc' = "textures" /\ UNCHANGED exit_code
    /\ UNCHANGED <<camera, world, frame_end, render>>
    /\ UNCHANGED <<args, file, log, mainVars, analyzeVars, calls>>

\* import_model, on the empty scene reset_scene left
import_model ==
    /\ pc = "import"
    /\ IF Importer(args.ext) = "exit"
       THEN /\ exit_code' = 1
            /\ pc' = "exited"
            /\ UNCHANGED blenderVars
       ELSE /\ objs' = objs \o FileObjects(file)
            /\ mats' = mats \o FileMats
            /\ images' = images + 1
            /\ pc' = "textures"
            /\ UNCHANGED <<camera, world, frame_end, render, exit_code>>
    /\ UNCHANGED <<args, file, log, mainVars, analyzeVars, calls>>

\* --------------------------------------------------------------- main: textures
\* one "if args.X: replace_texture(args.X, part)" of main, on the result r of
\* the ones before it
TextureStep(r, image_path, target_part) ==
    IF image_path = "None" THEN r
    ELSE LET t == replace_texture(objs, r.mats, r.images, image_path, target_part)
         IN  [mats |-> t.mats, images |-> t.images, made |-> r.made + 1]

\* the four replace_texture calls of main
ReplaceTextures ==
    /\ pc = "textures"
    /\ LET r0 == [mats |-> mats, images |-> images, made |-> 0]
           r1 == TextureStep(r0, args.tex.texture, args.tex.texture_target)
           r2 == TextureStep(r1, args.tex.texture_front, "front")
           r3 == TextureStep(r2, args.tex.texture_back, "back")
           r4 == TextureStep(r3, args.tex.texture_background, "background")
       IN  /\ mats' = r4.mats
           /\ images' = r4.images
           /\ calls' = calls + r4.made
           /\ log' = log \o [k \in 1..r4.made |-> "MaterialTextureResolver"]
    /\ pc' = "detect"
    /\ UNCHANGED <<args, file, exit_code, objs, camera, world, frame_end, render,
                   mainVars, analyzeVars>>

\* --------------------------------------------------------------- main: animation mode
\* keep_animation, as main decides it
KeepAnimation(os, rotations) == rotations < 0 /\ check_if_animation_exists(os)

\* final_frames, as main decides it
FinalFrames(os, scene_end, rotations, frames) ==
    IF KeepAnimation(os, rotations)
    THEN (IF frames > 0 THEN frames ELSE get_animation_length(os, scene_end))
    ELSE (IF frames > 0 THEN frames ELSE default_frames)

\* final_rotations, as main decides it
FinalRotations(os, rotations) ==
    IF KeepAnimation(os, rotations) THEN default_rotations
    ELSE IF rotations >= 0 THEN rotations ELSE default_rotations

DetectAnimation ==
    /\ pc = "detect"
    /\ keep_animation' = KeepAnimation(objs, args.rotations)
    /\ final_frames' = FinalFrames(objs, frame_end, args.rotations, args.frames)
    /\ final_rotations' = FinalRotations(objs, args.rotations)
    /\ log' = Append(log, "AnimationDetector")
    /\ pc' = "analyze"
    /\ UNCHANGED <<args, file, exit_code, blenderVars, frames_to_render,
                   analyzeVars, calls>>

\* --------------------------------------------------------------- analyze_and_setup_scene
\* lines 149-180: the early return, the classification, the animation clearing
Classify ==
    /\ pc = "analyze"
    /\ log' = Append(log, "ObjectClassifier")
    /\ IF get_all_mesh_objects(objs) = <<>>
       THEN /\ scene_center' = Vector(0, 0, 0)
            /\ scene_size' = 1
            /\ pc' = "rig"
            /\ UNCHANGED <<objs, card_objects, background_objects>>
       ELSE /\ card_objects' = CardObjects(objs, mats)
            /\ background_objects' = BackgroundObjects(objs, mats)
            /\ objs' = IF ~keep_animation
                       THEN ClearAnimation(objs, CardObjects(objs, mats))
                       ELSE objs
            /\ pc' = "bounds"
            /\ UNCHANGED <<scene_center, scene_size>>
    /\ UNCHANGED <<args, file, exit_code, mats, images, camera, world, frame_end,
                   render, mainVars, card_center, card_size, card_parent, calls>>

\* a variant of card_center that takes the bounds of every mesh
CardCenter_AllMeshes(os, cards) ==
    IF ~Bounds(os, get_all_mesh_objects(os)).has THEN Vector(0, 0, 0)
    ELSE Center(Bounds(os, get_all_mesh_objects(os)))

\* card_center and card_size of a set of card objects
CardCenter(os, cards) ==
    IF ~Bounds(os, cards).has THEN Vector(0, 0, 0) ELSE Center(Bounds(os, cards))

CardSize(os, cards) ==
    IF ~Bounds(os, cards).has THEN 1 ELSE Size(Bounds(os, cards))

\* lines 182-200
ComputeCardBounds ==
    /\ pc = "bounds"
    /\ card_center' = CardCenter(objs, card_objects)
    /\ card_size' = CardSize(objs, card_objects)
    /\ log' = Append(log, "BoundsComputer")
    /\ pc' = "pivot"
    /\ UNCHANGED <<args, file, exit_code, blenderVars, mainVars, card_objects,
                   background_objects, card_parent, scene_center, scene_size, calls>>

VNeg(v) == <<-v[1], -v[2], -v[3]>>

\* obj.parent = card_parent, with the parent-inverse that keeps the pose
Reparent(os, cards, p) ==
    [i \in 1..Len(os) |->
        IF \E k \in 1..Len(cards) : cards[k] = i
        THEN [os[i] EXCEPT !.parent = p,
                           !.matrix_parent_inverse = VNeg(os[p].location)]
        ELSE os[i]]

\* bpy.ops.object.empty_add(location=...): a new empty, Blender's default name
EmptyAdd(os, location) ==
    Append(os, Empty(UniqueName(os, EmptyName), location, "none", {}))

\* lines 202-210: the pivot is always a new empty, then named and made parent
CreatePivot ==
    /\ pc = "pivot"
    /\ card_parent' = Len(objs) + 1
    /\ \E named \in Rename(EmptyAdd(objs, card_center), Len(objs) + 1, CardParentName) :
           objs' = Reparent(named, card_objects, Len(objs) + 1)
    /\ log' = Append(log, "PivotRig")
    /\ pc' = "focus"
    /\ UNCHANGED <<args, file, exit_code, mats, images, camera, world, frame_end,
                   render, mainVars, card_objects, background_objects, card_center,
                   card_size, scene_center, scene_size, calls>>

\* lines 224-247: the bounds of the whole scene and the focus point
CreateFocusPoint ==
    /\ pc = "focus"
    /\ LET all_objects == card_objects \o background_objects
           b == Bounds(objs, all_objects)
           focus_point == ObjectsGet(objs, FocusPointName)
       IN  /\ scene_center' = Center(b)
           /\ scene_size' = Size(b)
           /\ IF focus_point = 0
              THEN \E named \in Rename(EmptyAdd(objs, Center(b)), Len(objs) + 1,
                                       FocusPointName) : objs' = named
              ELSE objs' = [objs EXCEPT ![focus_point].location = Center(b)]
    /\ log' = Append(log, "BoundsComputer")
    /\ pc' = "rig"
    /\ UNCHANGED <<args, file, exit_code, mats, images, camera, world, frame_end,
                   render, mainVars, card_objects, background_objects, card_center,
                   card_size, card_parent, calls>>

\* --------------------------------------------------------------- main: camera, lights
GrayWorld == [exists |-> TRUE, use_nodes |-> TRUE, color |-> "gray", strength |-> 1]

SetupLighting ==
    /\ pc = "rig"
    /\ ~is_blend_file
    /\ objs' = setup_lighting(objs, scene_center, scene_size)
    /\ world' = GrayWorld
    /\ log' = Append(log, "LightingPlanner")
    /\ pc' = "camera"
    /\ UNCHANGED <<args, file, exit_code, mats, images, camera, frame_end, render,
                   mainVars, analyzeVars, calls>>

\* a variant of main that sets the camera up before the lights as well
SetupCamera_BeforeLights ==
    /\ \/ pc = "camera"
       \/ pc = "rig" /\ camera = 0
    /\ objs' = setup_camera(objs, scene_center, scene_size)
    /\ camera' = Len(objs) + 1
    /\ log' = Append(log, "CameraPlanner")
    /\ pc' = IF pc = "rig" /\ ~is_blend_file THEN "rig" ELSE "animate"
    /\ UNCHANGED <<args, file, exit_code, mats, images, world, frame_end, render,
                   mainVars, analyzeVars, calls>>

SetupCamera ==
    /\ \/ pc = "camera"
       \/ pc = "rig" /\ is_blend_file /\ camera = 0
    /\ objs' = setup_camera(objs, scene_center, scene_size)
    /\ camera' = Len(objs) + 1
    /\ log' = Append(log, "CameraPlanner")
    /\ pc' = "animate"
    /\ UNCHANGED <<args, file, exit_code, mats, images, world, frame_end, render,
                   mainVars, analyzeVars, calls>>

UseProjectCamera ==
    /\ pc = "rig"
    /\ is_blend_file
    /\ camera # 0
    /\ pc' = "animate"
    /\ UNCHANGED <<args, file, exit_code, log, blenderVars, mainVars, analyzeVars,
                   calls>>

\* --------------------------------------------------------------- main: animation
FramesToRender(test, frames) == IF test THEN 1 ELSE frames

\* lines 574-581, when the turntable is written
SetupTurntable ==
    /\ pc = "animate"
    /\ ~keep_animation
    /\ frames_to_render' = FramesToRender(args.test, final_frames)
    /\ objs' = setup_turntable_animation(objs, FramesToRender(args.test, final_frames),
                                         final_rotations)
    /\ log' = Append(log, "TurntableAnimator")
    /\ pc' = "settings"
    /\ UNCHANGED <<args, file, exit_code, mats, images, camera, world, frame_end,
                   render, keep_animation, final_frames, final_rotations,
                   analyzeVars, calls>>

\* lines 574-581, when the authored animation is kept
KeepAuthoredAnimation ==
    /\ pc = "animate"
    /\ keep_animation
    /\ frames_to_render' = FramesToRender(args.test, final_frames)
    /\ pc' = "settings"
    /\ UNCHANGED <<args, file, exit_code, log, blenderVars, keep_animation,
                   final_frames, final_rotations, analyzeVars, calls>>

SetupRenderSettings ==
    /\ pc = "settings"
    /\ frame_end' = frames_to_render
    /\ \E view_transform \in ViewTransforms :
           render' = setup_render_settings(render, "output", is_blend_file,
                                           view_transform)
    /\ pc' = "render"
    /\ UNCHANGED <<args, file, exit_code, log, objs, mats, images, camera, world,
                   mainVars, analyzeVars, calls>>

\* bpy.ops.render.render(animation=True), then main returns
Render ==
    /\ pc = "render"
    /\ log' = Append(log, "Renderer")
    /\ exit_code' = 0
    /\ pc' = "done"
    /\ UNCHANGED <<args, file, blenderVars, mainVars, analyzeVars, calls>>

Next ==
    \/ OpenMainfile
    \/ reset_scene
    \/ import_model
    \/ ReplaceTextures
    \/ DetectAnimation
    \/ Classify
    \/ ComputeCardBounds
    \/ CreatePivot
    \/ CreateFocusPoint
    \/ SetupLighting
    \/ SetupCamera
    \/ UseProjectCamera
    \/ SetupTurntable
    \/ KeepAuthoredAnimation
    \/ SetupRenderSettings
    \/ Render

Spec == Init /\ [][Next]_vars

\* --------------------------------------------------------------- replace_texture alone
\* The shading graphs a material may come with: nodes off; a principled node
\* with a free base color; one fed by an image texture; one fed by another
\* node, on the socket's older name; a principled node without the socket; no
\* principled node; two principled nodes, the first one free.
Shapes ==
    { [use_nodes |-> FALSE, nodes |-> <<Node("BSDF_PRINCIPLED", 0, "Base Color", 0)>>],
      [use_nodes |-> TRUE, nodes |-> <<Node("BSDF_PRINCIPLED", 0, "Base Color", 0)>>],
      [use_nodes |-> TRUE, nodes |-> <<Node("BSDF_PRINCIPLED", 0, "Base Color", 2),
                                       Node("TEX_IMAGE", 1, "", 0)>>],
      [use_nodes |-> TRUE, nodes |-> <<Node("MIX", 0, "", 0),
                                       Node("BSDF_PRINCIPLED", 0, "BaseColor", 1)>>],
      [use_nodes |-> TRUE, nodes |-> <<Node("BSDF_PRINCIPLED", 0, "", 0)>>],
      [use_nodes |-> TRUE, nodes |-> <<Node("BSDF_DIFFUSE", 0, "", 0)>>],
      [use_nodes |-> TRUE, nodes |-> <<Node("TEX_IMAGE", 1, "", 0),
                                       Node("BSDF_PRINCIPLED", 0, "Base Color", 0),
                                       Node("BSDF_PRINCIPLED", 0, "Base Color", 1)>>] }

\* material names: a front one, a back one whose keyword overlaps the
\* background keyword's first character, a background one
MaterialNames ==
    << <<"zheng", "mian", "_", "m", "a", "t">>,
       <<"k", "a", "_", "fan", "mian">>,
       <<"bei", "jing">> >>

MaterialLibraries ==
    { [m \in 1..Len(MaterialNames) |->
          Material(MaterialNames[m], shape[m].use_nodes, shape[m].nodes)] :
      shape \in [1..Len(MaterialNames) -> Shapes] }

TextureMesh(base, i, materials) ==
    Object(base \o <<Digit(i)>>, "MESH", materials, "none", 0, {},
           BoxCorners(<<-1, 0, -2>>, <<1, 0, 2>>), NoneVec, NoneVec, 0, 0, <<>>)

\* scenes that put the materials on subject and background objects
TextureScenes ==
    { << TextureMesh(<<"C", "a", "r", "d">>, 1, <<1, 2, 0>>),
         TextureMesh(<<"V", "E", "N", "_", "b", "g">>, 2, <<3>>) >>,
      << TextureMesh(<<"C", "a", "r", "d">>, 1, <<2>>),
         TextureMesh(<<"V", "E", "N", "_", "b", "g">>, 2, <<3, 1>>) >>,
      << TextureMesh(<<"C", "a", "r", "d">>, 1, <<>>),
         TextureMesh(<<"P", "l", "a", "n", "e">>, 2, <<3, 1>>),
         TextureMesh(<<"x", "C", "A", "R", "N", "A", "G", "E">>, 3, <<2>>) >> }

InitTexture ==
    /\ args = [image_path |-> "None", target_part |-> "front"]
    /\ file = [meshes |-> <<>>, layout |-> 0, project |-> NoProject]
    /\ pc = "call"
    /\ exit_code = -1
    /\ log = <<>>
    /\ objs \in TextureScenes
    /\ mats \in MaterialLibraries
    /\ images = 1
    /\ camera = 0
    /\ world = AuthoredWorld
    /\ frame_end = FactoryFrameEnd
    /\ render = StartupRender
    /\ NoLocals
    /\ calls = 0

\* one call replace_texture(image_path, target_part)
ReplaceTextureCall ==
    /\ pc = "call"
    /\ calls < MaxCalls
    /\ \E image_path \in ImagePaths \cup {"None"}, target_part \in TargetParts :
           /\ args' = [image_path |-> image_path, target_part |-> target_part]
           /\ mats' = replace_texture(objs, mats, images, image_path, target_part).mats
           /\ images' = replace_texture(objs, mats, images, image_path, target_part).images
    /\ calls' = calls + 1
    /\ log' = Append(log, "MaterialTextureResolver")
    /\ UNCHANGED <<pc, file, exit_code, objs, camera, world, frame_end, render,
                   mainVars, analyzeVars>>

NextTexture == ReplaceTextureCall

SpecTexture == InitTexture /\ [][NextTexture]_vars

\* =============================================================== properties
Set(seq) == {seq[k] : k \in 1..Len(seq)}

\* main has left the classification of analyze_and_setup_scene behind, on a
\* scene with meshes
AfterClassify ==
    {"bounds", "pivot", "focus", "rig", "camera", "animate", "settings", "render", "done"}
Classified == pc \in AfterClassify /\ card_objects # <<>>

Meshes == Set(get_all_mesh_objects(objs))

\* the background rule as the specification words it: a material name with the
\* background keyword, or an object name with one of the two reserved tokens
RuleBackground(i) ==
    \/ \E k \in 1..Len(objs[i].materials) :
           /\ objs[i].materials[k] # 0
           /\ Contains(<<"bei", "jing">>, mats[objs[i].materials[k]].name)
    \/ Contains(<<"V", "E", "N">>, objs[i].name)
    \/ Contains(<<"C", "A", "R", "N", "A", "G", "E">>, objs[i].name)

SomeSubject == \E i \in Meshes : ~RuleBackground(i)

\* what C1 says of both sets apart from their disjointness
C1_Membership ==
    /\ Set(card_objects) \cup Set(background_objects) = Meshes
    /\ \A i \in Meshes : i \in Set(background_objects) <=> RuleBackground(i)
    /\ SomeSubject => \A i \in Meshes : i \in Set(card_objects) <=> ~RuleBackground(i)
    /\ ~SomeSubject => Set(card_objects) = Meshes
    /\ Set(card_objects) # {}

\* C1 as stated: the classification yields two disjoint sets that cover the
\* meshes, background being exactly the meshes the rule names, and the subject
\* set is never empty; the sets are disjoint also after the fallback.
C1_Original ==
    Classified =>
        /\ C1_Membership
        /\ Set(card_objects) \cap Set(background_objects) = {}

\* C1 as amended: the sets cover the meshes, background is exactly the meshes
\* the rule names and the subject set is never empty; the sets are disjoint
\* when some mesh is not background, and after the fallback both hold every
\* mesh.
C1_Amended ==
    Classified =>
        /\ C1_Membership
        /\ SomeSubject => Set(card_objects) \cap Set(background_objects) = {}
        /\ ~SomeSubject => Set(card_objects) = Set(background_objects)

\* the fallback has fired on a scene of two background meshes
C1_Witness ==
    /\ pc = "bounds"
    /\ Len(card_objects) = 2
    /\ ~SomeSubject

\* ---------------------------------------------------------------
\* the keywords a target selector stands for; a selector that is none of the
\* three stands for the front and back keywords
Keywords(target_part) ==
    CASE target_part = "front" -> {<<"zheng", "mian">>}
      [] target_part = "back" -> {<<"bei", "mian">>, <<"fan", "mian">>}
      [] target_part = "background" -> {<<"bei", "jing">>}
      [] OTHER -> {<<"zheng", "mian">>, <<"bei", "mian">>, <<"fan", "mian">>}

Matches(name, target_part) == \E kw \in Keywords(target_part) : Contains(kw, name)

\* C2: a call of replace_texture leaves the shading graph of every material
\* whose name contains none of the requested target's keywords as it was: no
\* node added, no link changed, no image changed.
C2_Untouched ==
    [][\A m \in 1..Len(mats) :
          ~Matches(mats[m].name, args'.target_part) => mats'[m] = mats[m]]_vars

\* a call has rewired a front material with the loaded image and left another
\* material, with a graph it could have rewired, alone
C2_Witness ==
    /\ calls >= 1
    /\ args.image_path = "ok.png"
    /\ args.target_part = "front"
    /\ \E m \in 1..Len(mats) :
           /\ Matches(mats[m].name, "front")
           /\ \E n \in 1..Len(mats[m].nodes) : mats[m].nodes[n].image = images
    /\ images = 2
    /\ \E m \in 1..Len(mats) :
           /\ ~Matches(mats[m].name, "front")
           /\ mats[m].use_nodes
           /\ FirstPrincipled(mats[m].nodes) # 0
           /\ \A n \in 1..Len(mats[m].nodes) : mats[m].nodes[n].image < images

\* ---------------------------------------------------------------
\* the turntable has been written on a pivot that exists
TurntableWritten ==
    /\ pc \in {"settings", "render", "done"}
    /\ ~keep_animation
    /\ TurntableParent(objs) # 0

\* C3 as stated: after setup_turntable_animation(F, R) has run on an existing
\* pivot, the rotation track holds exactly the two linear samples (1, 0) and
\* (F + 1, 2*pi*R), whatever it held before.
C3_Original ==
    TurntableWritten =>
        objs[TurntableParent(objs)].track =
            {Keyframe(1, 0, "LINEAR"),
             Keyframe(frames_to_render + 1, final_rotations, "LINEAR")}

\* ---------------------------------------------------------------
\* C4 as stated: the authored animation is kept exactly when --rotations was
\* left unspecified and some mesh that is not background, by material keyword
\* or by name token, carries an action.
C4_Original ==
    pc = "analyze" =>
        (keep_animation <=>
            /\ args.rotations < 0
            /\ \E i \in Meshes : ~RuleBackground(i) /\ objs[i].anim = "action")

\* ---------------------------------------------------------------
ActionEnds == {objs[i].action_end : i \in {j \in Meshes : objs[j].anim = "action"}}

\* the largest end frame of the meshes' actions, in half frames
AuthoredEnd == CHOOSE e \in ActionEnds : \A f \in ActionEnds : f <= e

\* the animation is kept and --frames was not given
Preserved == pc = "analyze" /\ keep_animation /\ args.frames <= 0

\* C5 as stated: with the animation kept and no frame count requested, the
\* frame count is the scene's frame_end when that is at least 2, and the
\* authored track's end frame when frame_end is below 2 and the track extends
\* further.
C5_Original ==
    Preserved =>
        /\ frame_end >= 2 => final_frames = frame_end
        /\ (frame_end < 2 /\ AuthoredEnd > 2 * frame_end) =>
               2 * final_frames = AuthoredEnd

\* C5 as amended: with the animation kept and no frame count requested, the
\* frame count is the scene's frame_end when that is at least 2, and the
\* integer part of the largest end frame among the mesh objects' actions,
\* background meshes included, when frame_end is below 2 and that end frame
\* is beyond it.
C5_Amended ==
    Preserved =>
        /\ frame_end >= 2 => final_frames = frame_end
        /\ (frame_end < 2 /\ AuthoredEnd > 2 * frame_end) =>
               final_frames = AuthoredEnd \div 2

\* the animation is kept on a scene whose frame_end is below 2 and whose
\* longest action ends between two frames
C5_Witness ==
    /\ Preserved
    /\ frame_end < 2
    /\ AuthoredEnd > 2 * frame_end
    /\ AuthoredEnd % 2 = 1

\* ---------------------------------------------------------------
\* no importer reads the extension of args.input
Unsupported == Importer(args.ext) = "exit"

\* what main has not touched when it has done nothing but load
NothingBuilt ==
    /\ log = <<>>
    /\ calls = 0
    /\ keep_animation = FALSE /\ final_frames = 0 /\ frames_to_render = 0
    /\ card_objects = <<>> /\ card_parent = 0
    /\ frame_end = FactoryFrameEnd
    /\ render = StartupRender

\* C6 as stated: on an unsupported extension the process ends with a non-zero
\* status and nothing of the session has been changed before that: no scene
\* reset, no import, no texture, pivot, keyframe or render setting.
C6_Original ==
    /\ Unsupported => pc \in {"start", "import", "exited"}
    /\ pc = "exited" =>
           /\ Unsupported
           /\ exit_code # 0
           /\ NothingBuilt
           /\ objs = StartupObjects /\ mats = StartupMats /\ images = 0
           /\ camera = 3 /\ world = AuthoredWorld

\* C6 as amended: on an unsupported extension the process ends with a non-zero
\* status after the scene reset and before anything else: nothing is imported,
\* no texture rewired, no pivot created, no keyframe or render setting written;
\* the session is the empty factory scene.
C6_Amended ==
    /\ Unsupported => pc \in {"start", "import", "exited"}
    /\ pc = "exited" =>
           /\ Unsupported
           /\ exit_code # 0
           /\ NothingBuilt
           /\ objs = <<>> /\ mats = <<>> /\ images = 0
           /\ camera = 0 /\ world = NoWorld

\* the process has exited on an unsupported extension
C6_Witness == pc = "exited" /\ exit_code = 1 /\ args.ext = ".txt"

\* ---------------------------------------------------------------
\* analyze_and_setup_scene has created the pivot
PivotCreated ==
    /\ pc \in {"focus", "rig", "camera", "animate", "settings", "render", "done"}
    /\ card_parent # 0

\* the subject objects: the meshes that are not background, every mesh when
\* all are background
Subjects == IF SomeSubject THEN {i \in Meshes : ~RuleBackground(i)} ELSE Meshes

\* the world-space corners of a set of objects
CornersOf(S) ==
    {VAdd(objs[i].matrix_world, objs[i].bound_box[k]) : i \in S, k \in 1..8}

Lowest(V) == CHOOSE v \in V : \A w \in V : v <= w
Highest(V) == CHOOSE v \in V : \A w \in V : w <= v

\* the center of the axis-aligned box around a set of points, in half units
BoxCenter(P) ==
    << Lowest({c[1] : c \in P}) + Highest({c[1] : c \in P}),
       Lowest({c[2] : c \in P}) + Highest({c[2] : c \in P}),
       Lowest({c[3] : c \in P}) + Highest({c[3] : c \in P}) >>

\* C7: from its creation to the render call the pivot stands at the center of
\* the world-space bounding box of the subject objects alone.
C7_PivotAtSubjectCenter ==
    PivotCreated => objs[card_parent].location = BoxCenter(CornersOf(Subjects))

\* the render is due on a scene whose background meshes would have moved the
\* center, had they counted
C7_Witness ==
    /\ pc = "render"
    /\ card_parent # 0
    /\ SomeSubject
    /\ Subjects # Meshes
    /\ BoxCenter(CornersOf(Subjects)) # BoxCenter(CornersOf(Meshes))
    /\ objs[card_parent].track # {}

\* ---------------------------------------------------------------
ClaimedOrder ==
    << "ObjectClassifier", "BoundsComputer", "PivotRig", "CameraPlanner",
       "LightingPlanner", "MaterialTextureResolver", "AnimationDetector",
       "TurntableAnimator" >>

\* the order main runs them in: the resolver once per texture option given,
\* the bounds once for the subject and once for the whole scene
ActualOrder ==
    << "MaterialTextureResolver", "MaterialTextureResolver",
       "MaterialTextureResolver", "MaterialTextureResolver", "AnimationDetector",
       "ObjectClassifier", "BoundsComputer", "PivotRig", "BoundsComputer",
       "LightingPlanner", "CameraPlanner", "TurntableAnimator", "Renderer" >>

Ran(stage) == \E k \in 1..Len(log) : log[k] = stage
FirstRun(stage) == CHOOSE k \in 1..Len(log) :
                       log[k] = stage /\ \A j \in 1..(k - 1) : log[j] # stage

RECURSIVE IsSubsequence(_, _)
IsSubsequence(l, order) ==
    IF l = <<>> THEN TRUE
    ELSE IF order = <<>> THEN FALSE
    ELSE IF Head(l) = Head(order) THEN IsSubsequence(Tail(l), Tail(order))
    ELSE IsSubsequence(l, Tail(order))

\* C8 as stated: the stages run in the order ObjectClassifier, BoundsComputer,
\* PivotRig, CameraPlanner, LightingPlanner, MaterialTextureResolver,
\* AnimationDetector, TurntableAnimator.
C8_Original ==
    \A a, b \in 1..Len(ClaimedOrder) :
        (a < b /\ Ran(ClaimedOrder[a]) /\ Ran(ClaimedOrder[b])) =>
            FirstRun(ClaimedOrder[a]) < FirstRun(ClaimedOrder[b])

\* C8 as amended: the stages that run do so in the order
\* MaterialTextureResolver, AnimationDetector, ObjectClassifier,
\* BoundsComputer, PivotRig, BoundsComputer, LightingPlanner, CameraPlanner,
\* TurntableAnimator.
C8_Amended == IsSubsequence(log, ActualOrder)

\* a run in which all eight stages ran
C8_Witness ==
    /\ pc = "done"
    /\ \A a \in 1..Len(ClaimedOrder) : Ran(ClaimedOrder[a])

\* ---------------------------------------------------------------
\* C9 as stated: the node the subject objects are parented to carries the
\* reserved name, it is the one the animator looks up, and a scene that came
\* with such a node has no second one.
C9_Original ==
    PivotCreated =>
        /\ \A c \in Set(card_objects) :
               objs[c].parent = ObjectsGet(objs, CardParentName)
        /\ TurntableParent(objs) = card_parent
        /\ Cardinality({i \in 1..Len(objs) :
                           Contains(CardParentName, objs[i].name)}) = 1

\* ---------------------------------------------------------------
\* the material cannot take an image on its base color
NoBaseColor(mat) ==
    \/ FirstPrincipled(mat.nodes) = 0
    \/ mat.nodes[FirstPrincipled(mat.nodes)].socket = ""

\* C10 as stated: a call leaves the graph of a matching material without a
\* principled node, or without a base-color socket on it, as it was.
C10_Original ==
    [][\A m \in 1..Len(mats) :
          (Matches(mats[m].name, args'.target_part) /\ NoBaseColor(mats[m]))
              => mats'[m] = mats[m]]_vars

\* ---------------------------------------------------------------
\* the selectors the claim names
NamedSelectors == {"front", "back", "background"}

\* the mesh objects that carry material m in a slot
Carriers(m) ==
    {i \in Meshes : \E k \in 1..Len(objs[i].materials) : objs[i].materials[k] = m}

\* the objects the target selects, as the specification words it: background
\* objects for the background selector, the others for front and back
SelectedByTarget(i, target_part) ==
    IF target_part = "background" THEN RuleBackground(i) ELSE ~RuleBackground(i)

\* C11 as stated: a call with the front, back or background selector changes
\* a material only if some mesh object the selector selects carries it, where
\* front and back select the meshes that are not background by material
\* keyword or name token and background selects the background meshes.
C11_Original ==
    [][\A m \in 1..Len(mats) :
          (args'.target_part \in NamedSelectors /\ mats'[m] # mats[m])
              => \E i \in Carriers(m) : SelectedByTarget(i, args'.target_part)]_vars

\* ---------------------------------------------------------------
\* the objects as the input file held them; they keep their places in
\* bpy.data.objects, what the program creates comes after them
Loaded == FileObjects(file)

\* main is at the render call, or past it
RenderCall == pc \in {"render", "done"}

\* the two samples the animator writes
TurntableSamples ==
    {Keyframe(1, 0, "LINEAR"),
     Keyframe(frames_to_render + 1, final_rotations, "LINEAR")}

AllSubjectsCleared ==
    \A k \in 1..Len(card_objects) : objs[card_objects[k]].anim = "none"

\* the outcome with the animation kept: every object of the file has the
\* animation and the rotation track it came with, and nothing the program
\* created carries a track
KeptOutcome ==
    \A i \in 1..Len(objs) :
        IF i <= Len(Loaded)
        THEN /\ objs[i].anim = Loaded[i].anim
             /\ objs[i].action_end = Loaded[i].action_end
             /\ objs[i].track = Loaded[i].track
        ELSE objs[i].track = {}

\* the outcome with the turntable: no subject object has animation of its
\* own, and the pivot the animator found, if any, holds the two samples
TurntableOutcome ==
    /\ AllSubjectsCleared
    /\ TurntableParent(objs) # 0 =>
           TurntableSamples \subseteq objs[TurntableParent(objs)].track

\* a step of main that writes a rotation track
WritesTrack ==
    /\ pc \notin {"start", "import"}
    /\ \E i \in 1..Len(objs) : objs'[i].track # objs[i].track

\* the animator runs on a scene without a pivot
AnimatorWithoutPivot ==
    pc = "animate" /\ ~keep_animation /\ TurntableParent(objs) = 0

\* C12: at the render call a run that keeps the authored animation has
\* cleared no animation and written no rotation track, and any other run has
\* no subject object with animation of its own beside the turntable samples
\* on the pivot; a rotation track is only ever written in a run that does not
\* keep the animation and after every subject object's animation was cleared;
\* without a pivot the animator changes no object and main goes on.
C12_ClearOrKeep ==
    /\ [](RenderCall => IF keep_animation THEN KeptOutcome ELSE TurntableOutcome)
    /\ [][WritesTrack => (~keep_animation /\ AllSubjectsCleared)]_vars
    /\ [][AnimatorWithoutPivot =>
             (objs' = objs /\ exit_code' = exit_code /\ pc' = "settings")]_vars

\* the render call of a run that cleared a subject's authored action and
\* wrote the turntable on the pivot
C12_Witness ==
    /\ pc = "render"
    /\ ~keep_animation
    /\ \E k \in 1..Len(card_objects) :
           /\ Loaded[card_objects[k]].anim = "action"
           /\ objs[card_objects[k]].anim = "none"
    /\ card_parent # 0
    /\ TurntableSamples \subseteq objs[TurntableParent(objs)].track
====
